---- MODULE Spec2Model ----
(* Model of testsuites/go_x509.go: the conformance runner that checks Go's   *)
(* x509 verification against the bettertls corpus.  runTests loads the      *)
(* corpus, starts numWorkers workers and one failureCounter, dispatches two  *)
(* trials (IP, DNS) per expectation over the buffered channel `work`,        *)
(* workers push mismatches to the buffered channel `failures`, and the       *)
(* counter delivers the number of failures over the unbuffered channel       *)
(* failureCount.                                                             *)
EXTENDS Integers, Sequences, FiniteSets

\* ------------------------------------------------------------------ bounds
MaxK == 2            \* longest corpus explored by Spec
MaxCPU == 2          \* largest runtime.NumCPU() explored by Spec
MaxCaseDesc == 1     \* longest case-level description list in TrialSpec
MaxSubjDesc == 2     \* longest per-subject description list in TrialSpec
MaxFairK == 3        \* longest corpus explored by FairSpec

\* ------------------------------------------------------- program constants
WorkersPerCPU == 2   \* numWorkers := runtime.NumCPU() * 2

cnWithSANs == "cnWithSANs"
dnsInCNViolation == "dnsInCNViolation"
forbiddenIPAddressPresent == "forbiddenIPAddressPresent"
ipInCNViolation == "ipInCNViolation"
ipViolation == "ipViolation"
noIPGiven == "noIPGiven"

\* the case labels of the switch over desc
NonFatalTags ==
  {forbiddenIPAddressPresent, noIPGiven, ipViolation, ipInCNViolation, dnsInCNViolation}

FatalTags == {cnWithSANs}

\* ------------------------------------------------------------------ errors
\* Go error values: nil, or an error identified by the statement that made it
\* (kind) and the value formatted into its message (arg).
Err(kind, arg) == [kind |-> kind, arg |-> arg]

NoErr == Err("nil", "")

\* strconv / %d formatting of the small counts that appear in messages
Itoa(n) ==
  CASE n = 0 -> "0"
    [] n = 1 -> "1"
    [] n = 2 -> "2"
    [] n = 3 -> "3"
    [] OTHER -> "many"

\* ------------------------------------------------------- expectation logic
\* func (e *expectation) descriptions() []string
descriptions(e) ==
  IF e.testDNS
    THEN e.Descriptions \o e.DNS.Descriptions
    ELSE e.Descriptions \o e.IP.Descriptions

\* Mutant of ScanDescriptions: no break after a fatal tag.
RECURSIVE ScanWithoutBreak(_, _, _)
ScanWithoutBreak(descs, i, shouldFail) ==
  IF i > Len(descs)
    THEN [shouldFail |-> shouldFail, err |-> NoErr, scanned |-> i - 1]
    ELSE IF descs[i] \in NonFatalTags
      THEN ScanWithoutBreak(descs, i + 1, FALSE)
      ELSE IF descs[i] \in FatalTags
        THEN ScanWithoutBreak(descs, i + 1, TRUE)
        ELSE [shouldFail |-> shouldFail,
              err |-> Err("unknownDescription", descs[i]),
              scanned |-> i]

\* Mutant of ScanDescriptions: no default case, an unknown tag is passed over.
RECURSIVE ScanWithoutDefault(_, _, _)
ScanWithoutDefault(descs, i, shouldFail) ==
  IF i > Len(descs)
    THEN [shouldFail |-> shouldFail, err |-> NoErr, scanned |-> i - 1]
    ELSE IF descs[i] \in NonFatalTags
      THEN ScanWithoutDefault(descs, i + 1, FALSE)
      ELSE IF descs[i] \in FatalTags
        THEN [shouldFail |-> TRUE, err |-> NoErr, scanned |-> i]
        ELSE ScanWithoutDefault(descs, i + 1, shouldFail)

\* Mutant of ScanDescriptions: the non-fatal case sets shouldFail = true.
RECURSIVE ScanNonFatalFails(_, _, _)
ScanNonFatalFails(descs, i, shouldFail) ==
  IF i > Len(descs)
    THEN [shouldFail |-> shouldFail, err |-> NoErr, scanned |-> i - 1]
    ELSE IF descs[i] \in NonFatalTags
      THEN ScanNonFatalFails(descs, i + 1, TRUE)
      ELSE IF descs[i] \in FatalTags
        THEN [shouldFail |-> TRUE, err |-> NoErr, scanned |-> i]
        ELSE [shouldFail |-> shouldFail,
              err |-> Err("unknownDescription", descs[i]),
              scanned |-> i]

\* The loop labelled Descriptions: scans descs from position i with the
\* current value of shouldFail; `scanned` is the number of tags examined.
RECURSIVE ScanDescriptions(_, _, _)
ScanDescriptions(descs, i, shouldFail) ==
  IF i > Len(descs)
    THEN [shouldFail |-> shouldFail, err |-> NoErr, scanned |-> i - 1]
    ELSE IF descs[i] \in NonFatalTags
      THEN ScanDescriptions(descs, i + 1, FALSE)
      ELSE IF descs[i] \in FatalTags
        THEN [shouldFail |-> TRUE, err |-> NoErr, scanned |-> i]
        ELSE [shouldFail |-> shouldFail,
              err |-> Err("unknownDescription", descs[i]),
              scanned |-> i]

\* Mutant of Evaluate: no check for an empty description list.
EvaluateWithoutEmptyCheck(test) ==
  CASE test.DNS.Result = "ERROR" ->
         [shouldFail |-> TRUE, err |-> NoErr, scanned |-> 0]
    [] test.DNS.Result = "OK" ->
         [shouldFail |-> FALSE, err |-> NoErr, scanned |-> 0]
    [] test.DNS.Result = "WEAK-OK" ->
         ScanDescriptions(descriptions(test), 1, FALSE)
    [] OTHER ->
         [shouldFail |-> FALSE,
          err |-> Err("unknownResult", test.DNS.Result),
          scanned |-> 0]

\* Mutant of Evaluate: the descriptions are scanned for the code OK too.
EvaluateScansForOK(test) ==
  CASE test.DNS.Result = "ERROR" ->
         [shouldFail |-> TRUE, err |-> NoErr, scanned |-> 0]
    [] test.DNS.Result = "OK" ->
         ScanDescriptions(descriptions(test), 1, FALSE)
    [] test.DNS.Result = "WEAK-OK" ->
         IF Len(descriptions(test)) = 0
           THEN [shouldFail |-> FALSE,
                 err |-> Err("weakOKWithoutDescription", ""),
                 scanned |-> 0]
           ELSE ScanDescriptions(descriptions(test), 1, FALSE)
    [] OTHER ->
         [shouldFail |-> FALSE,
          err |-> Err("unknownResult", test.DNS.Result),
          scanned |-> 0]

\* Mutant of Evaluate: an unknown result code is taken as OK.
EvaluateDefaultsToOK(test) ==
  CASE test.DNS.Result = "ERROR" ->
         [shouldFail |-> TRUE, err |-> NoErr, scanned |-> 0]
    [] test.DNS.Result = "WEAK-OK" ->
         IF Len(descriptions(test)) = 0
           THEN [shouldFail |-> FALSE,
                 err |-> Err("weakOKWithoutDescription", ""),
                 scanned |-> 0]
           ELSE ScanDescriptions(descriptions(test), 1, FALSE)
    [] OTHER ->
         [shouldFail |-> FALSE, err |-> NoErr, scanned |-> 0]

\* The switch over test.DNS.Result: the decision shouldFail, or the error
\* that is reported instead.
Evaluate(test) ==
  CASE test.DNS.Result = "ERROR" ->
         [shouldFail |-> TRUE, err |-> NoErr, scanned |-> 0]
    [] test.DNS.Result = "OK" ->
         [shouldFail |-> FALSE, err |-> NoErr, scanned |-> 0]
    [] test.DNS.Result = "WEAK-OK" ->
         IF Len(descriptions(test)) = 0
           THEN [shouldFail |-> FALSE,
                 err |-> Err("weakOKWithoutDescription", ""),
                 scanned |-> 0]
           ELSE ScanDescriptions(descriptions(test), 1, FALSE)
    [] OTHER ->
         [shouldFail |-> FALSE,
          err |-> Err("unknownResult", test.DNS.Result),
          scanned |-> 0]

\* What a worker did with one trial: which steps ran, whether the test was
\* sent to failures, and the value of test.err when it was.
Outcome(loaded, evaluated, verified, report, err) ==
  [loaded |-> loaded, evaluated |-> evaluated, verified |-> verified,
   report |-> report, err |-> err]

\* Mutant of SkipsTrial: IP trials are run like DNS trials.
SkipsNothing(test) == FALSE

\* if !test.testDNS { continue }
SkipsTrial(test) == ~test.testDNS

\* Mutant of Compare: reports whenever Verify fails, whatever shouldFail is.
CompareIgnoringShouldFail(shouldFail, verr) ==
  Outcome(TRUE, TRUE, TRUE, verr # NoErr, verr)

\* The comparison of Verify's error with shouldFail.
Compare(shouldFail, verr) ==
  IF shouldFail
    THEN Outcome(TRUE, TRUE, TRUE, verr = NoErr, NoErr)
    ELSE Outcome(TRUE, TRUE, TRUE, verr # NoErr, verr)

\* Mutant of RunTrial: the number of certificates in the .crt file is not
\* checked.
RunTrialWithoutCountCheck(test, file, verr) ==
  IF SkipsTrial(test)
    THEN Outcome(FALSE, FALSE, FALSE, FALSE, NoErr)
    ELSE IF ~file.chainOk
      THEN Outcome(TRUE, FALSE, FALSE, TRUE, Err("readChain", ""))
      ELSE IF ~file.leafOk
        THEN Outcome(TRUE, FALSE, FALSE, TRUE, Err("readLeaf", ""))
        ELSE IF Evaluate(test).err # NoErr
          THEN Outcome(TRUE, TRUE, FALSE, TRUE, Evaluate(test).err)
          ELSE Compare(Evaluate(test).shouldFail, verr)

\* One iteration of the loop labelled NextTest.  file is the state of the
\* trial's .chain and .crt files, verr the error leaf[0].Verify returns.
RunTrial(test, file, verr) ==
  IF SkipsTrial(test)
    THEN Outcome(FALSE, FALSE, FALSE, FALSE, NoErr)
    ELSE IF ~file.chainOk
      THEN Outcome(TRUE, FALSE, FALSE, TRUE, Err("readChain", ""))
      ELSE IF ~file.leafOk
        THEN Outcome(TRUE, FALSE, FALSE, TRUE, Err("readLeaf", ""))
        ELSE IF file.leafCount # 1
          THEN Outcome(TRUE, FALSE, FALSE, TRUE,
                       Err("leafCount", Itoa(file.leafCount)))
          ELSE IF Evaluate(test).err # NoErr
            THEN Outcome(TRUE, TRUE, FALSE, TRUE, Evaluate(test).err)
            ELSE Compare(Evaluate(test).shouldFail, verr)

\* strings.Join(elems, " ")
RECURSIVE Join(_)
Join(elems) ==
  IF Len(elems) = 0 THEN ""
  ELSE IF Len(elems) = 1 THEN elems[1]
  ELSE elems[1] \o " " \o Join(Tail(elems))

\* The line failureCounter prints for a received failure.
Line(failure) ==
  [Id |-> failure.Id,
   testType |-> IF failure.testDNS THEN "DNS" ELSE "IP",
   err |-> failure.err,
   descs |-> Join(descriptions(failure))]

\* fmt.Errorf("failed %d of %d tests", numFailures, len(expectations.Expects))
FailedErr(n, total) == [kind |-> "failed", arg |-> "", n |-> n, of |-> total]

\* ------------------------------------------------------------------- state
VARIABLES
  loadFault,       \* environment: which of root.crt, config.json, expects.json is unreadable
  corpus,          \* environment: the expectations stored in expects.json
  certFiles,       \* environment: state of <id>.chain and <id>.crt
  verifyErr,       \* environment: the error leaf[0].Verify returns for <id>
  numCPU,          \* environment: runtime.NumCPU()
  pc,              \* position of main/runTests
  expects,         \* expectations.Expects
  numWorkers,      \* numWorkers; also the capacity of work and failures
  i,               \* index of the loop starting the workers
  j,               \* index of the range loop over expectations.Expects
  wg,              \* counter of the sync.WaitGroup
  work,            \* buffer of channel work
  workClosed,      \* close(work) has run
  failures,        \* buffer of channel failures
  failuresClosed,  \* close(failures) has run
  wpc,             \* position of each worker
  wtest,           \* the test a worker is about to send to failures
  cpc,             \* position of failureCounter
  num,             \* failureCounter's num
  numFailures,     \* runTests' numFailures
  retErr,          \* value returned by runTests
  stderr,          \* what main wrote to os.Stderr
  passPrinted,     \* number of times main printed PASS
  exitStatus,      \* process exit status, -1 while running
  printed,         \* lines failureCounter printed
  enqueued,        \* history: trials sent on work, in order
  deqCount,        \* history: number of times each trial was received from work
  steps,           \* history: what the worker did with each trial
  sentCount,       \* history: number of sends to failures for each trial
  recvCount        \* history: number of failures failureCounter received for each trial

envVars == <<loadFault, corpus, certFiles, verifyErr, numCPU>>

runVars == <<pc, expects, numWorkers, i, j, numFailures, retErr, stderr,
             passPrinted, exitStatus>>

chanVars == <<wg, work, workClosed, failures, failuresClosed>>

workerVars == <<wpc, wtest>>

counterVars == <<cpc, num, printed>>

histVars == <<enqueued, deqCount, steps, sentCount, recvCount>>

vars == <<envVars, runVars, chanVars, workerVars, counterVars, histVars>>

\* ------------------------------------------------------------------ inputs
SeqsUpTo(S, n) == UNION {[1..m -> S] : m \in 0..n}

ExpectedResult(result, descs) == [Result |-> result, Descriptions |-> descs]

\* An expectation as json.Unmarshal leaves it: testDNS false, err nil.
Expectation(id, c) ==
  [Id |-> id, IP |-> c.IP, DNS |-> c.DNS, Descriptions |-> c.Descriptions,
   testDNS |-> FALSE, err |-> NoErr]

NoTest == Expectation(0, [IP |-> ExpectedResult("", <<>>),
                          DNS |-> ExpectedResult("", <<>>),
                          Descriptions |-> <<>>])

FileState(chainOk, leafOk, leafCount) ==
  [chainOk |-> chainOk, leafOk |-> leafOk, leafCount |-> leafCount]

GoodFiles == FileState(TRUE, TRUE, 1)

FileStates ==
  {GoodFiles, FileState(FALSE, TRUE, 1), FileState(TRUE, FALSE, 1),
   FileState(TRUE, TRUE, 0), FileState(TRUE, TRUE, 2)}

VerifyFailure == Err("x509", "")

VerifyErrs == {NoErr, VerifyFailure}

LoadFaults == {"none", "root", "config", "expects"}

Case(ip, dns, descs, file, verr) ==
  [IP |-> ip, DNS |-> dns, Descriptions |-> descs, file |-> file, verr |-> verr]

\* The cases the corpora of Spec are built from: a pass, a mismatch without
\* error, a mismatch with Verify's error, an unreadable chain, an
\* evaluation error.
ConcCases ==
  { Case(ExpectedResult("ERROR", <<>>), ExpectedResult("OK", <<>>), <<>>,
         GoodFiles, NoErr),
    Case(ExpectedResult("MAYBE", <<"bogus">>), ExpectedResult("ERROR", <<>>), <<>>,
         GoodFiles, NoErr),
    Case(ExpectedResult("WEAK-OK", <<cnWithSANs>>),
         ExpectedResult("WEAK-OK", <<ipViolation>>), <<>>,
         GoodFiles, VerifyFailure),
    Case(ExpectedResult("OK", <<>>), ExpectedResult("OK", <<>>), <<noIPGiven>>,
         FileState(FALSE, TRUE, 1), NoErr) }

\* The inputs of TrialSpec: one expectation drawn from every result code and
\* every short description list over these tags.
InputTags == {ipViolation, cnWithSANs, "bogus"}

InputResults == {"OK", "ERROR", "WEAK-OK", "MAYBE"}

InputIPs ==
  {ExpectedResult("ERROR", <<>>), ExpectedResult("MAYBE", <<"bogus">>),
   ExpectedResult("WEAK-OK", <<cnWithSANs>>)}

TrialCases ==
  { Case(ip, ExpectedResult(r, d), c, f, v) :
      ip \in InputIPs, r \in InputResults,
      d \in SeqsUpTo(InputTags, MaxSubjDesc),
      c \in SeqsUpTo(InputTags, MaxCaseDesc),
      f \in FileStates, v \in VerifyErrs }

\* The cases the corpora of PairSpec are built from: every file state under
\* a known and an unknown result code, and the cases of Spec.
PairCases ==
  { Case(ExpectedResult("OK", <<>>), ExpectedResult(r, <<>>), <<>>, f, NoErr) :
      r \in {"OK", "MAYBE"}, f \in FileStates } \cup ConcCases

\* The cases the corpora of FairSpec are built from: a pass and a mismatch.
FairCases ==
  { Case(ExpectedResult("OK", <<>>), ExpectedResult(r, <<>>), <<>>, GoodFiles, NoErr) :
      r \in {"OK", "ERROR"} }

Trials == (1..Len(corpus)) \X BOOLEAN

Key(test) == <<test.Id, test.testDNS>>

NotRun == Outcome(FALSE, FALSE, FALSE, FALSE, NoErr)

\* ------------------------------------------------------------------- Init
\* The state at entry to main, for the environment given by cases.
Start(cases, fault, ncpu) ==
  /\ loadFault = fault
  /\ corpus = [n \in 1..Len(cases) |-> Expectation(n, cases[n])]
  /\ certFiles = [n \in 1..Len(cases) |-> cases[n].file]
  /\ verifyErr = [n \in 1..Len(cases) |-> cases[n].verr]
  /\ numCPU = ncpu
  /\ pc = "loadRoot"
  /\ expects = <<>>
  /\ numWorkers = 0
  /\ i = 0
  /\ j = 0
  /\ wg = 0
  /\ work = <<>>
  /\ workClosed = FALSE
  /\ failures = <<>>
  /\ failuresClosed = FALSE
  /\ wpc = [w \in 1..(ncpu * WorkersPerCPU) |-> "unstarted"]
  /\ wtest = [w \in 1..(ncpu * WorkersPerCPU) |-> NoTest]
  /\ cpc = "unstarted"
  /\ num = 0
  /\ numFailures = 0
  /\ retErr = NoErr
  /\ stderr = NoErr
  /\ passPrinted = 0
  /\ exitStatus = -1
  /\ printed = {}
  /\ enqueued = <<>>
  /\ deqCount = [t \in (1..Len(cases)) \X BOOLEAN |-> 0]
  /\ steps = [t \in (1..Len(cases)) \X BOOLEAN |-> NotRun]
  /\ sentCount = [t \in (1..Len(cases)) \X BOOLEAN |-> 0]
  /\ recvCount = [t \in (1..Len(cases)) \X BOOLEAN |-> 0]

Init ==
  \E cases \in SeqsUpTo(ConcCases, MaxK), fault \in LoadFaults, ncpu \in 1..MaxCPU :
    Start(cases, fault, ncpu)

TrialInit ==
  \E c \in TrialCases : Start(<<c>>, "none", 1)

\* Two expectations, two workers, everything loaded.
PairInit ==
  \E a \in PairCases, b \in PairCases : Start(<<a, b>>, "none", 1)

\* Corpora long enough to fill both channels, on every number of workers.
FairInit ==
  \E cases \in SeqsUpTo(FairCases, MaxFairK), fault \in LoadFaults,
     ncpu \in 1..MaxCPU :
    Start(cases, fault, ncpu)

\* ---------------------------------------------------------- main, runTests
\* root, err := loadRoot(); if err != nil { return err }
LoadRoot ==
  /\ pc = "loadRoot"
  /\ IF loadFault = "root"
       THEN /\ retErr' = Err("loadRoot", "")
            /\ pc' = "return"
       ELSE /\ pc' = "loadConfig"
            /\ UNCHANGED retErr
  /\ UNCHANGED <<envVars, expects, numWorkers, i, j, numFailures, stderr,
                 passPrinted, exitStatus, chanVars, workerVars, counterVars,
                 histVars>>

\* Mutant of LoadConfig: the error of loadConfig is dropped.
LoadConfigIgnoresError ==
  /\ pc = "loadConfig"
  /\ pc' = "loadExpectations"
  /\ UNCHANGED <<envVars, expects, numWorkers, i, j, numFailures, retErr, stderr,
                 passPrinted, exitStatus, chanVars, workerVars, counterVars,
                 histVars>>

\* config, err := loadConfig(); if err != nil { return err }
LoadConfig ==
  /\ pc = "loadConfig"
  /\ IF loadFault = "config"
       THEN /\ retErr' = Err("loadConfig", "")
            /\ pc' = "return"
       ELSE /\ pc' = "loadExpectations"
            /\ UNCHANGED retErr
  /\ UNCHANGED <<envVars, expects, numWorkers, i, j, numFailures, stderr,
                 passPrinted, exitStatus, chanVars, workerVars, counterVars,
                 histVars>>

\* expectations, err := loadExpectations(); if err != nil { return err }
\* followed by numWorkers := runtime.NumCPU() * 2 and the three make(chan)
LoadExpectations ==
  /\ pc = "loadExpectations"
  /\ IF loadFault = "expects"
       THEN /\ retErr' = Err("loadExpectations", "")
            /\ pc' = "return"
            /\ UNCHANGED <<expects, numWorkers>>
       ELSE /\ expects' = corpus
            /\ numWorkers' = numCPU * WorkersPerCPU
            /\ pc' = "spawn"
            /\ UNCHANGED retErr
  /\ UNCHANGED <<envVars, i, j, numFailures, stderr, passPrinted, exitStatus,
                 chanVars, workerVars, counterVars, histVars>>

\* go worker(failures, work, &wg, config, root)
SpawnWorker ==
  /\ pc = "spawn"
  /\ wpc' = [wpc EXCEPT ![i + 1] = "recv"]
  /\ pc' = "add"
  /\ UNCHANGED <<envVars, expects, numWorkers, i, j, numFailures, retErr, stderr,
                 passPrinted, exitStatus, chanVars, wtest, counterVars, histVars>>

\* wg.Add(1); i++; i < numWorkers
WgAdd ==
  /\ pc = "add"
  /\ wg' = wg + 1
  /\ i' = i + 1
  /\ pc' = IF i + 1 < numWorkers THEN "spawn" ELSE "goCounter"
  /\ UNCHANGED <<envVars, expects, numWorkers, j, numFailures, retErr, stderr,
                 passPrinted, exitStatus, work, workClosed, failures,
                 failuresClosed, workerVars, counterVars, histVars>>

\* go failureCounter(failureCount, failures), then the range loop is entered
StartCounter ==
  /\ pc = "goCounter"
  /\ cpc' = "range"
  /\ j' = 1
  /\ pc' = IF Len(expects) >= 1 THEN "sendIP" ELSE "closeWork"
  /\ UNCHANGED <<envVars, expects, numWorkers, i, numFailures, retErr, stderr,
                 passPrinted, exitStatus, chanVars, workerVars, num, printed,
                 histVars>>

\* Mutant of SendIP: testDNS is set to true for the first send too.
SendIPAsDNS ==
  /\ pc = "sendIP"
  /\ Len(work) < numWorkers
  /\ work' = Append(work, [expects[j] EXCEPT !.testDNS = TRUE])
  /\ enqueued' = Append(enqueued, <<expects[j].Id, TRUE>>)
  /\ pc' = "sendDNS"
  /\ UNCHANGED <<envVars, expects, numWorkers, i, j, numFailures, retErr, stderr,
                 passPrinted, exitStatus, wg, workClosed, failures,
                 failuresClosed, workerVars, counterVars, deqCount, steps,
                 sentCount, recvCount>>

\* expectation.testDNS = false; work <- expectation
SendIP ==
  /\ pc = "sendIP"
  /\ Len(work) < numWorkers
  /\ work' = Append(work, [expects[j] EXCEPT !.testDNS = FALSE])
  /\ enqueued' = Append(enqueued, <<expects[j].Id, FALSE>>)
  /\ pc' = "sendDNS"
  /\ UNCHANGED <<envVars, expects, numWorkers, i, j, numFailures, retErr, stderr,
                 passPrinted, exitStatus, wg, workClosed, failures,
                 failuresClosed, workerVars, counterVars, deqCount, steps,
                 sentCount, recvCount>>

\* expectation.testDNS = true; work <- expectation; next expectation
SendDNS ==
  /\ pc = "sendDNS"
  /\ Len(work) < numWorkers
  /\ work' = Append(work, [expects[j] EXCEPT !.testDNS = TRUE])
  /\ enqueued' = Append(enqueued, <<expects[j].Id, TRUE>>)
  /\ j' = j + 1
  /\ pc' = IF j + 1 <= Len(expects) THEN "sendIP" ELSE "closeWork"
  /\ UNCHANGED <<envVars, expects, numWorkers, i, numFailures, retErr, stderr,
                 passPrinted, exitStatus, wg, workClosed, failures,
                 failuresClosed, workerVars, counterVars, deqCount, steps,
                 sentCount, recvCount>>

\* close(work)
CloseWork ==
  /\ pc = "closeWork"
  /\ workClosed' = TRUE
  /\ pc' = "wait"
  /\ UNCHANGED <<envVars, expects, numWorkers, i, j, numFailures, retErr, stderr,
                 passPrinted, exitStatus, wg, work, failures, failuresClosed,
                 workerVars, counterVars, histVars>>

\* Mutant of WgWait: does not wait for the workers.
WgWaitNoBlock ==
  /\ pc = "wait"
  /\ pc' = "closeFailures"
  /\ UNCHANGED <<envVars, expects, numWorkers, i, j, numFailures, retErr, stderr,
                 passPrinted, exitStatus, chanVars, workerVars, counterVars,
                 histVars>>

\* wg.Wait()
WgWait ==
  /\ pc = "wait"
  /\ wg = 0
  /\ pc' = "closeFailures"
  /\ UNCHANGED <<envVars, expects, numWorkers, i, j, numFailures, retErr, stderr,
                 passPrinted, exitStatus, chanVars, workerVars, counterVars,
                 histVars>>

\* close(failures)
CloseFailures ==
  /\ pc = "closeFailures"
  /\ failuresClosed' = TRUE
  /\ pc' = "recvCount"
  /\ UNCHANGED <<envVars, expects, numWorkers, i, j, numFailures, retErr, stderr,
                 passPrinted, exitStatus, wg, work, workClosed, failures,
                 workerVars, counterVars, histVars>>

\* numFailures := <-failureCount, meeting failureCounter's count <- num on
\* the unbuffered channel; then the return value is chosen
RecvCount ==
  /\ pc = "recvCount"
  /\ cpc = "sendCount"
  /\ numFailures' = num
  /\ retErr' = IF num # 0 THEN FailedErr(num, Len(expects)) ELSE NoErr
  /\ cpc' = "done"
  /\ pc' = "return"
  /\ UNCHANGED <<envVars, expects, numWorkers, i, j, stderr, passPrinted,
                 exitStatus, chanVars, workerVars, num, printed, histVars>>

\* Mutant of MainExit: falls through to println("PASS") after reporting.
MainExitFallsThrough ==
  /\ pc = "return"
  /\ stderr' = IF retErr.kind # "nil" THEN retErr ELSE stderr
  /\ exitStatus' = IF retErr.kind # "nil" THEN 1 ELSE 0
  /\ passPrinted' = passPrinted + 1
  /\ pc' = "exited"
  /\ UNCHANGED <<envVars, expects, numWorkers, i, j, numFailures, retErr,
                 chanVars, workerVars, counterVars, histVars>>

\* func main: report the error and exit 1, or print PASS
MainExit ==
  /\ pc = "return"
  /\ IF retErr.kind # "nil"
       THEN /\ stderr' = retErr
            /\ exitStatus' = 1
            /\ UNCHANGED passPrinted
       ELSE /\ passPrinted' = passPrinted + 1
            /\ exitStatus' = 0
            /\ UNCHANGED stderr
  /\ pc' = "exited"
  /\ UNCHANGED <<envVars, expects, numWorkers, i, j, numFailures, retErr,
                 chanVars, workerVars, counterVars, histVars>>

\* ------------------------------------------------------------------ worker
\* for test := range work { ... }: receive a test and run the loop body up
\* to the send to failures, or to the next iteration when nothing is sent
Receive(w, test, out) ==
  /\ work' = Tail(work)
  /\ deqCount' = [deqCount EXCEPT ![Key(test)] = @ + 1]
  /\ steps' = [steps EXCEPT ![Key(test)] = out]
  /\ IF out.report
       THEN /\ wtest' = [wtest EXCEPT ![w] = [test EXCEPT !.err = out.err]]
            /\ wpc' = [wpc EXCEPT ![w] = "send"]
       ELSE UNCHANGED <<wpc, wtest>>

WorkerRecv(w) ==
  /\ wpc[w] = "recv"
  /\ work # <<>>
  /\ Receive(w, Head(work),
             RunTrial(Head(work), certFiles[Head(work).Id], verifyErr[Head(work).Id]))
  /\ UNCHANGED <<envVars, runVars, wg, workClosed, failures, failuresClosed,
                 counterVars, enqueued, sentCount, recvCount>>

\* failures <- test; continue
WorkerSend(w) ==
  /\ wpc[w] = "send"
  /\ Len(failures) < numWorkers
  /\ failures' = Append(failures, wtest[w])
  /\ sentCount' = [sentCount EXCEPT ![Key(wtest[w])] = @ + 1]
  /\ wtest' = [wtest EXCEPT ![w] = NoTest]
  /\ wpc' = [wpc EXCEPT ![w] = "recv"]
  /\ UNCHANGED <<envVars, runVars, wg, work, workClosed, failuresClosed,
                 counterVars, enqueued, deqCount, steps, recvCount>>

\* Mutant of WorkerExit: leaves as soon as work is closed, drained or not.
WorkerExitEarly(w) ==
  /\ wpc[w] = "recv"
  /\ workClosed
  /\ wg' = wg - 1
  /\ wpc' = [wpc EXCEPT ![w] = "done"]
  /\ UNCHANGED <<envVars, runVars, work, workClosed, failures, failuresClosed,
                 wtest, counterVars, histVars>>

\* Mutant of WorkerExit: the worker returns when it finds work empty.
WorkerExitOnEmpty(w) ==
  /\ wpc[w] = "recv"
  /\ work = <<>>
  /\ wg' = wg - 1
  /\ wpc' = [wpc EXCEPT ![w] = "done"]
  /\ UNCHANGED <<envVars, runVars, work, workClosed, failures, failuresClosed,
                 wtest, counterVars, histVars>>

\* Mutant of WorkerExit: the worker returns without wg.Done().
WorkerExitWithoutDone(w) ==
  /\ wpc[w] = "recv"
  /\ work = <<>>
  /\ workClosed
  /\ wpc' = [wpc EXCEPT ![w] = "done"]
  /\ UNCHANGED <<envVars, runVars, chanVars, wtest, counterVars, histVars>>

\* range over the closed and drained work ends; defer wg.Done()
WorkerExit(w) ==
  /\ wpc[w] = "recv"
  /\ work = <<>>
  /\ workClosed
  /\ wg' = wg - 1
  /\ wpc' = [wpc EXCEPT ![w] = "done"]
  /\ UNCHANGED <<envVars, runVars, work, workClosed, failures, failuresClosed,
                 wtest, counterVars, histVars>>

\* ---------------------------------------------------------- failureCounter
\* Mutant of CounterRecv: num = 1 in place of num++.
CounterRecvSetsOne ==
  /\ cpc = "range"
  /\ failures # <<>>
  /\ num' = 1
  /\ printed' = printed \cup {Line(Head(failures))}
  /\ recvCount' = [recvCount EXCEPT ![Key(Head(failures))] = @ + 1]
  /\ failures' = Tail(failures)
  /\ UNCHANGED <<envVars, runVars, wg, work, workClosed, failuresClosed,
                 workerVars, cpc, enqueued, deqCount, steps, sentCount>>

\* for failure := range failures { num++; fmt.Printf(...) }
CounterRecv ==
  /\ cpc = "range"
  /\ failures # <<>>
  /\ num' = num + 1
  /\ printed' = printed \cup {Line(Head(failures))}
  /\ recvCount' = [recvCount EXCEPT ![Key(Head(failures))] = @ + 1]
  /\ failures' = Tail(failures)
  /\ UNCHANGED <<envVars, runVars, wg, work, workClosed, failuresClosed,
                 workerVars, cpc, enqueued, deqCount, steps, sentCount>>

\* Mutant of CounterEnd: stops at the first moment failures is empty.
CounterEndOnEmpty ==
  /\ cpc = "range"
  /\ failures = <<>>
  /\ cpc' = "sendCount"
  /\ UNCHANGED <<envVars, runVars, chanVars, workerVars, num, printed, histVars>>

\* range over the closed and drained failures ends; count <- num is next
CounterEnd ==
  /\ cpc = "range"
  /\ failures = <<>>
  /\ failuresClosed
  /\ cpc' = "sendCount"
  /\ UNCHANGED <<envVars, runVars, chanVars, workerVars, num, printed, histVars>>

Workers == 1..(numCPU * WorkersPerCPU)

Next ==
  \/ LoadRoot
  \/ LoadConfig
  \/ LoadExpectations
  \/ SpawnWorker
  \/ WgAdd
  \/ StartCounter
  \/ SendIP
  \/ SendDNS
  \/ CloseWork
  \/ WgWait
  \/ CloseFailures
  \/ RecvCount
  \/ MainExit
  \/ \E w \in Workers : WorkerRecv(w)
  \/ \E w \in Workers : WorkerSend(w)
  \/ \E w \in Workers : WorkerExit(w)
  \/ CounterRecv
  \/ CounterEnd

Spec == Init /\ [][Next]_vars

TrialSpec == TrialInit /\ [][Next]_vars

PairSpec == PairInit /\ [][Next]_vars

\* The goroutines: main with runTests, each worker, failureCounter.
MainStep ==
  \/ LoadRoot \/ LoadConfig \/ LoadExpectations \/ SpawnWorker \/ WgAdd
  \/ StartCounter \/ SendIP \/ SendDNS \/ CloseWork \/ WgWait
  \/ CloseFailures \/ RecvCount \/ MainExit

WorkerStep(w) ==
  /\ w \in Workers
  /\ (WorkerRecv(w) \/ WorkerSend(w) \/ WorkerExit(w))

CounterStep == CounterRecv \/ CounterEnd

\* The Go scheduler runs every goroutine that stays runnable.
Fairness ==
  /\ WF_vars(MainStep)
  /\ \A w \in 1..(MaxCPU * WorkersPerCPU) : WF_vars(WorkerStep(w))
  /\ WF_vars(CounterStep)

FairSpec == FairInit /\ [][Next]_vars /\ Fairness

\* ------------------------------------------------------ reference values
\* The run is over and the corpus was loaded.
Finished == pc = "exited" /\ loadFault = "none"

\* The trial <<id, dns>> as the dispatcher builds it from the corpus.
TrialOf(t) == [corpus[t[1]] EXCEPT !.testDNS = t[2]]

DNSTrials == {t \in Trials : t[2]}

IPTrials == {t \in Trials : ~t[2]}

FilesGood(t) == certFiles[t[1]] = GoodFiles

\* Verify accepts the certificate of trial t.
Accepts(t) == verifyErr[t[1]] = NoErr

\* mustSucceed, the evaluator's decision, is the negation of shouldFail.
MustSucceed(t) == ~Evaluate(TrialOf(t)).shouldFail

EvalErr(t) == Evaluate(TrialOf(t)).err

Combined(t) == descriptions(TrialOf(t))

Bit(b) == IF b THEN 1 ELSE 0

\* C1: for every DNS trial whose files load (one leaf) and whose expectation
\* evaluates without error to mustSucceed, a failure is sent for the trial
\* exactly when Verify's outcome disagrees with mustSucceed: never more than
\* one send, none while they agree, and one by the end of the run otherwise.
C1_ReportIffMismatch ==
  \A t \in DNSTrials :
    (FilesGood(t) /\ EvalErr(t) = NoErr) =>
      /\ sentCount[t] <= Bit(Accepts(t) # MustSucceed(t))
      /\ recvCount[t] <= sentCount[t]
      /\ Finished =>
           /\ sentCount[t] = Bit(Accepts(t) # MustSucceed(t))
           /\ recvCount[t] = sentCount[t]
      /\ \A f \in printed :
           (f.Id = t[1] /\ f.testType = "DNS") =>
              /\ f.err = verifyErr[t[1]]
              /\ f.descs = Join(Combined(t))

\* C1 witness: a finished run in which an ERROR expectation met an accepting
\* Verify and the one failure for the DNS trial was counted.
C1_Witness ==
  /\ Finished
  /\ \E t \in DNSTrials :
       /\ FilesGood(t) /\ EvalErr(t) = NoErr
       /\ Accepts(t) /\ ~MustSucceed(t)
       /\ sentCount[t] = 1 /\ recvCount[t] = 1

\* The failures a run that executes the trials one after the other reports.
ExpectedFailures ==
  {t \in Trials : RunTrial(TrialOf(t), certFiles[t[1]], verifyErr[t[1]]).report}

TestType(t) == IF t[2] THEN "DNS" ELSE "IP"

\* C2: for a fixed corpus and Verify, the count the run ends with and the
\* set of (id, subject-type) pairs printed as failures are those of the
\* sequential execution, whatever the interleaving, the assignment of trials
\* to workers and the number of workers.
C2_Deterministic ==
  Finished =>
    /\ numFailures = Cardinality(ExpectedFailures)
    /\ {<<f.Id, f.testType>> : f \in printed}
         = {<<t[1], TestType(t)>> : t \in ExpectedFailures}

\* C2 witness: a finished run of two failing expectations on four workers.
C2_Witness ==
  /\ Finished
  /\ numWorkers = 4
  /\ Len(corpus) = 2
  /\ numFailures = 2
  /\ Cardinality(printed) = 2

\* C3: once the corpus is loaded, runTests returns an error and the exit
\* status is 1 exactly when the count delivered by failureCounter is not
\* zero; when it is zero runTests returns nil, PASS is printed exactly once
\* and the exit status is 0.
C3_Verdict ==
  /\ passPrinted <= 1
  /\ pc # "exited" => (exitStatus = -1 /\ passPrinted = 0)
  /\ (loadFault = "none" /\ pc \in {"return", "exited"}) =>
       /\ numFailures = num
       /\ (retErr.kind # "nil") <=> (num # 0)
  /\ Finished =>
       /\ (exitStatus = 1) <=> (num # 0)
       /\ (exitStatus = 0) <=> (num = 0)
       /\ (passPrinted = 1) <=> (num = 0)
       /\ (stderr # NoErr) <=> (num # 0)

\* C3 witness: a run with failures that has exited with status 1.
C3_Witness ==
  /\ Finished
  /\ num # 0
  /\ exitStatus = 1
  /\ passPrinted = 0

\* The order in which the dispatcher sends the trials of K expectations.
DispatchOrder(K) == [n \in 1..(2 * K) |-> <<(n + 1) \div 2, n % 2 = 0>>]

InWork(t) == \E n \in 1..Len(work) : Key(work[n]) = t

\* C4: the dispatcher sends 2*K trials, for each expectation the IP trial
\* and then the DNS trial, and each trial sent is received by a worker
\* exactly once: it is in the queue or has been received once, never both,
\* never twice, and by the end of the run every trial has been received.
C4_EachTrialOnce ==
  /\ Len(enqueued) <= 2 * Len(corpus)
  /\ enqueued = SubSeq(DispatchOrder(Len(corpus)), 1, Len(enqueued))
  /\ workClosed /\ loadFault = "none" => enqueued = DispatchOrder(Len(corpus))
  /\ \A t \in Trials :
       /\ deqCount[t] <= 1
       /\ (\E n \in 1..Len(enqueued) : enqueued[n] = t)
             <=> (deqCount[t] = 1 \/ InWork(t))
       /\ ~(deqCount[t] = 1 /\ InWork(t))
       /\ Cardinality({n \in 1..Len(work) : Key(work[n]) = t}) <= 1
  /\ Finished => \A t \in Trials : deqCount[t] = 1

\* C4 witness: a finished run of two expectations whose four trials were
\* sent in order and each received once.
C4_Witness ==
  /\ Finished
  /\ Len(corpus) = 2
  /\ enqueued = <<<<1, FALSE>>, <<1, TRUE>>, <<2, FALSE>>, <<2, TRUE>>>>
  /\ \A t \in Trials : deqCount[t] = 1

\* C5 as stated: by the end of the run failureCounter has received exactly
\* one report for every one of the 2*K trials.
C5_Original ==
  Finished => \A t \in Trials : recvCount[t] = 1

\* C5 amended: no trial is reported more than once; by the end of the run
\* failureCounter has received exactly one report for each trial that
\* mismatched or hit an error, and none for a trial that passed or was
\* skipped.
C5_ReportedAtMostOnce ==
  /\ \A t \in Trials :
       /\ recvCount[t] <= sentCount[t]
       /\ sentCount[t] <= Bit(steps[t].report)
       /\ sentCount[t] <= deqCount[t]
  /\ Finished =>
       /\ \A t \in Trials : recvCount[t] = Bit(steps[t].report)
       /\ \A t \in IPTrials : recvCount[t] = 0
       /\ num = Cardinality({t \in Trials : steps[t].report})

\* C5 witness: a finished run with a reported DNS trial and a passed one.
C5_Witness ==
  /\ Finished
  /\ \E t \in DNSTrials : recvCount[t] = 1
  /\ \E t \in DNSTrials : recvCount[t] = 0 /\ steps[t].verified

\* The expectation with its IP result blanked.
WithoutIP(e) == [e EXCEPT !.IP = ExpectedResult("", <<>>)]

\* The count of a run that dispatches the DNS trials only.
CountWithoutIP ==
  Cardinality({t \in DNSTrials :
     RunTrial(WithoutIP(TrialOf(t)), certFiles[t[1]], verifyErr[t[1]]).report})

\* C6: an IP trial is skipped: the worker loads no file, runs neither the
\* evaluation nor Verify and sends no failure for it, so the count and the
\* verdict are those of the DNS trials alone, whatever the IP result's code
\* and descriptions are.
C6_IPSkipped ==
  /\ \A t \in IPTrials :
       /\ ~steps[t].loaded /\ ~steps[t].evaluated /\ ~steps[t].verified
       /\ sentCount[t] = 0
       /\ recvCount[t] = 0
  /\ \A f \in printed : f.testType = "DNS"
  /\ \A w \in Workers : wpc[w] = "send" => wtest[w].testDNS
  /\ Finished =>
       /\ num = CountWithoutIP
       /\ (exitStatus = 1) <=> (CountWithoutIP # 0)

\* C6 witness: a finished run whose IP trial, with an unknown result code
\* and an unknown tag, was received by a worker, and whose DNS trial passed.
C6_Witness ==
  /\ Finished
  /\ \E t \in IPTrials :
       /\ deqCount[t] = 1
       /\ corpus[t[1]].IP.Result = "MAYBE"
       /\ corpus[t[1]].IP.Descriptions = <<"bogus">>
  /\ exitStatus = 0

\* The tags the switch over desc has a case for.
Vocabulary == NonFatalTags \cup FatalTags

IsWeakOK(t) == corpus[t[1]].DNS.Result = "WEAK-OK"

HasFatal(descs) == \E k \in 1..Len(descs) : descs[k] \in FatalTags

HasUnknown(descs) == \E k \in 1..Len(descs) : descs[k] \notin Vocabulary

\* Position of the first tag of descs that is in S, Len(descs) + 1 if none.
First(descs, S) ==
  IF \E k \in 1..Len(descs) : descs[k] \in S
    THEN CHOOSE k \in 1..Len(descs) :
           descs[k] \in S /\ \A m \in 1..(k - 1) : descs[m] \notin S
    ELSE Len(descs) + 1

FirstFatal(descs) == First(descs, FatalTags)

FirstUnknown(descs) == First(descs, {descs[k] : k \in 1..Len(descs)} \ Vocabulary)

\* C7 as stated: a WEAK-OK result whose combined list holds a fatal tag
\* anywhere evaluates to mustSucceed = false, and the evaluated trial is
\* compared with Verify on that decision.
C7_Original ==
  \A t \in DNSTrials :
    (steps[t].evaluated /\ IsWeakOK(t) /\ HasFatal(Combined(t))) =>
      /\ EvalErr(t) = NoErr
      /\ ~MustSucceed(t)
      /\ steps[t].verified
      /\ steps[t].report = Accepts(t)

\* C7 amended: a WEAK-OK result whose combined list holds a fatal tag with
\* no unrecognized tag before the first fatal tag evaluates to
\* mustSucceed = false, whatever non-fatal tags stand before or after it;
\* the trial then fails exactly when Verify accepts the certificate.
C7_FatalWins ==
  \A t \in DNSTrials :
    (/\ IsWeakOK(t)
     /\ HasFatal(Combined(t))
     /\ FirstFatal(Combined(t)) < FirstUnknown(Combined(t))) =>
      /\ EvalErr(t) = NoErr
      /\ ~MustSucceed(t)
      /\ steps[t].evaluated => (steps[t].verified /\ steps[t].report = Accepts(t))
      /\ FilesGood(t) =>
           /\ sentCount[t] <= Bit(Accepts(t))
           /\ Finished => sentCount[t] = Bit(Accepts(t))

\* C7 witness: a finished run whose WEAK-OK list has a non-fatal tag before
\* and after the fatal tag, Verify accepted and the failure was counted.
C7_Witness ==
  /\ Finished
  /\ \E t \in DNSTrials :
       /\ IsWeakOK(t)
       /\ Combined(t) = <<ipViolation, cnWithSANs, ipViolation>>
       /\ steps[t].verified
       /\ Accepts(t)
       /\ recvCount[t] = 1

\* C8 as stated: whatever the result code and wherever the tag stands, a
\* combined list holding an unrecognized tag makes the evaluation fail with
\* an error naming an unrecognized tag, and the trial is sent to failures.
C8_Original ==
  \A t \in DNSTrials :
    (steps[t].evaluated /\ HasUnknown(Combined(t))) =>
      /\ EvalErr(t).kind = "unknownDescription"
      /\ EvalErr(t).arg \notin Vocabulary
      /\ steps[t].report
      /\ steps[t].err = EvalErr(t)

\* C8 amended: for a WEAK-OK result, an unrecognized tag that no fatal tag
\* precedes makes the evaluation fail with an error naming the first such
\* tag, Verify is not run and the trial is sent to failures once; the
\* description list is not examined for the codes OK and ERROR, nor behind
\* the first fatal tag, so an unrecognized tag there raises no error.
C8_UnknownTagReached ==
  \A t \in DNSTrials :
    HasUnknown(Combined(t)) =>
      /\ (IsWeakOK(t) /\ FirstUnknown(Combined(t)) < FirstFatal(Combined(t))) =>
           /\ EvalErr(t) =
                Err("unknownDescription", Combined(t)[FirstUnknown(Combined(t))])
           /\ steps[t].evaluated =>
                /\ steps[t].report
                /\ ~steps[t].verified
                /\ steps[t].err = EvalErr(t)
           /\ sentCount[t] <= 1
           /\ Finished => (sentCount[t] = 1 /\ recvCount[t] = 1)
           /\ (Finished /\ FilesGood(t)) =>
                \E f \in printed :
                  f.Id = t[1] /\ f.testType = "DNS" /\ f.err = EvalErr(t)
      /\ (\/ corpus[t[1]].DNS.Result \in {"OK", "ERROR"}
          \/ (IsWeakOK(t) /\ FirstFatal(Combined(t)) < FirstUnknown(Combined(t)))) =>
           /\ EvalErr(t) = NoErr
           /\ steps[t].evaluated => steps[t].verified

\* C8 witness: a finished run whose WEAK-OK list has an unrecognized tag
\* behind a non-fatal one; the error naming it was printed.
C8_Witness ==
  /\ Finished
  /\ \E t \in DNSTrials :
       /\ IsWeakOK(t)
       /\ Combined(t) = <<ipViolation, "bogus">>
       /\ steps[t].evaluated
       /\ recvCount[t] = 1
       /\ \E f \in printed : f.err = Err("unknownDescription", "bogus")

\* C9: a DNS trial whose result is WEAK-OK with an empty combined list
\* evaluates to the error "Weak-OK without description"; exactly one failure
\* is sent for it whatever Verify would return, and Verify is not run.
C9_EmptyWeakOK ==
  \A t \in DNSTrials :
    (IsWeakOK(t) /\ Combined(t) = <<>>) =>
      /\ EvalErr(t) = Err("weakOKWithoutDescription", "")
      /\ ~steps[t].verified
      /\ sentCount[t] <= 1
      /\ steps[t].evaluated => (steps[t].report /\ steps[t].err = EvalErr(t))
      /\ Finished =>
           /\ sentCount[t] = 1
           /\ recvCount[t] = 1
           /\ FilesGood(t) =>
                /\ steps[t].evaluated
                /\ \E f \in printed :
                     f.Id = t[1] /\ f.testType = "DNS" /\ f.err = EvalErr(t)

\* C9 witness: a finished run in which Verify would have accepted the
\* certificate of an empty WEAK-OK trial, and its failure was counted.
C9_Witness ==
  /\ Finished
  /\ \E t \in DNSTrials :
       /\ IsWeakOK(t) /\ Combined(t) = <<>>
       /\ FilesGood(t) /\ Accepts(t)
       /\ steps[t].evaluated
       /\ recvCount[t] = 1

\* C10: a WEAK-OK result whose combined list is not empty and holds only
\* non-fatal tags evaluates without error to mustSucceed = true, so the
\* trial, once its files are loaded, fails exactly when Verify rejects the
\* certificate.
C10_NonFatalOnly ==
  \A t \in DNSTrials :
    (/\ IsWeakOK(t)
     /\ Combined(t) # <<>>
     /\ \A k \in 1..Len(Combined(t)) : Combined(t)[k] \in NonFatalTags) =>
      /\ EvalErr(t) = NoErr
      /\ MustSucceed(t)
      /\ FilesGood(t) =>
           /\ sentCount[t] <= Bit(~Accepts(t))
           /\ steps[t].evaluated => steps[t].verified
           /\ Finished =>
                /\ steps[t].verified
                /\ sentCount[t] = Bit(~Accepts(t))
                /\ recvCount[t] = Bit(~Accepts(t))

\* C10 witness: a finished run in which Verify rejected the certificate of
\* a WEAK-OK trial with one non-fatal tag and the failure was counted.
C10_Witness ==
  /\ Finished
  /\ \E t \in DNSTrials :
       /\ IsWeakOK(t)
       /\ Combined(t) = <<ipViolation>>
       /\ FilesGood(t) /\ ~Accepts(t)
       /\ recvCount[t] = 1

ResultCode(t) == corpus[t[1]].DNS.Result

\* C11: for the codes OK and ERROR the decision depends on the code alone:
\* OK evaluates to mustSucceed = true and ERROR to mustSucceed = false for
\* every combined description list, no tag is examined and no error is
\* raised; the trial, once its files are loaded, is compared with Verify on
\* that decision.
C11_CodeAlone ==
  \A t \in DNSTrials :
    ResultCode(t) \in {"OK", "ERROR"} =>
      /\ EvalErr(t) = NoErr
      /\ MustSucceed(t) = (ResultCode(t) = "OK")
      /\ Evaluate(TrialOf(t)).scanned = 0
      /\ steps[t].evaluated => steps[t].verified
      /\ FilesGood(t) =>
           /\ sentCount[t] <= Bit(Accepts(t) # (ResultCode(t) = "OK"))
           /\ Finished =>
                /\ steps[t].verified
                /\ sentCount[t] = Bit(Accepts(t) # (ResultCode(t) = "OK"))

\* C11 witness: a finished run whose OK result carries a fatal and an
\* unrecognized tag, Verify accepted and nothing was reported.
C11_Witness ==
  /\ Finished
  /\ \E t \in DNSTrials :
       /\ ResultCode(t) = "OK"
       /\ Combined(t) = <<cnWithSANs, "bogus">>
       /\ steps[t].verified
       /\ Accepts(t)
       /\ sentCount[t] = 0

\* What the sequential execution of trial t alone gives.
OwnOutcome(t) == RunTrial(TrialOf(t), certFiles[t[1]], verifyErr[t[1]])

\* A worker leaves only when work is closed and drained, and by the end of
\* the run every trial other than t was received and scored on its own
\* expectation, files and Verify result.
OthersUnaffected(t) ==
  /\ \A w \in Workers : wpc[w] = "done" => (workClosed /\ work = <<>>)
  /\ Finished =>
       \A u \in Trials \ {t} :
         /\ deqCount[u] = 1
         /\ steps[u] = OwnOutcome(u)
         /\ sentCount[u] = Bit(OwnOutcome(u).report)
         /\ recvCount[u] = Bit(OwnOutcome(u).report)

\* C12: a DNS trial whose files load and whose result code is none of OK,
\* ERROR, WEAK-OK evaluates to an unknown-expected-result error naming the
\* code: exactly one failure carrying that error is sent and printed,
\* Verify is not run for it, and the worker goes on with the next trial.
C12_UnknownResult ==
  \A t \in DNSTrials :
    (FilesGood(t) /\ ResultCode(t) \notin {"OK", "ERROR", "WEAK-OK"}) =>
      /\ EvalErr(t) = Err("unknownResult", ResultCode(t))
      /\ ~steps[t].verified
      /\ sentCount[t] <= 1
      /\ deqCount[t] = 1 =>
           steps[t] = Outcome(TRUE, TRUE, FALSE, TRUE, EvalErr(t))
      /\ \A f \in printed :
           (f.Id = t[1] /\ f.testType = "DNS") => f.err = EvalErr(t)
      /\ Finished =>
           /\ sentCount[t] = 1
           /\ recvCount[t] = 1
           /\ \E f \in printed : f.Id = t[1] /\ f.testType = "DNS"
      /\ OthersUnaffected(t)

\* C12 witness: a finished run whose first expectation has an unknown code
\* and whose second expectation passed after it.
C12_Witness ==
  /\ Finished
  /\ ResultCode(<<1, TRUE>>) = "MAYBE"
  /\ FilesGood(<<1, TRUE>>)
  /\ recvCount[<<1, TRUE>>] = 1
  /\ steps[<<2, TRUE>>].verified
  /\ recvCount[<<2, TRUE>>] = 0
  /\ num = 1

\* The error of the first failing step of loading the trial's files.
InfraErr(file) ==
  IF ~file.chainOk THEN Err("readChain", "")
  ELSE IF ~file.leafOk THEN Err("readLeaf", "")
  ELSE Err("leafCount", Itoa(file.leafCount))

\* C14: a chain file or leaf file that cannot be read or parsed, or a leaf
\* file with a number of certificates other than one, is scoped to its
\* trial: exactly one failure carrying that error is sent and printed for
\* the trial, neither the evaluation nor Verify runs for it, and every other
\* trial is received and scored as its own inputs say.
C14_InfraErrorScoped ==
  \A t \in DNSTrials :
    ~FilesGood(t) =>
      /\ ~steps[t].evaluated
      /\ ~steps[t].verified
      /\ sentCount[t] <= 1
      /\ deqCount[t] = 1 =>
           steps[t] = Outcome(TRUE, FALSE, FALSE, TRUE, InfraErr(certFiles[t[1]]))
      /\ \A f \in printed :
           (f.Id = t[1] /\ f.testType = "DNS") => f.err = InfraErr(certFiles[t[1]])
      /\ Finished =>
           /\ sentCount[t] = 1
           /\ recvCount[t] = 1
           /\ \E f \in printed : f.Id = t[1] /\ f.testType = "DNS"
      /\ OthersUnaffected(t)

\* C14 witness: a finished run whose first expectation has two certificates
\* in its leaf file and whose second expectation was verified and passed.
C14_Witness ==
  /\ Finished
  /\ certFiles[1] = FileState(TRUE, TRUE, 2)
  /\ recvCount[<<1, TRUE>>] = 1
  /\ \E f \in printed : f.Id = 1 /\ f.err = Err("leafCount", "2")
  /\ steps[<<2, TRUE>>].verified
  /\ recvCount[<<2, TRUE>>] = 0

\* The error runTests returns for a load fault.
LoadErr(fault) ==
  CASE fault = "root" -> Err("loadRoot", "")
    [] fault = "config" -> Err("loadConfig", "")
    [] fault = "expects" -> Err("loadExpectations", "")

\* C13: when loading the root, the config or the expectations fails, the
\* run stops before any trial: no worker and no failureCounter is started,
\* nothing is sent on work, no failure is sent or printed, runTests returns
\* the load error and the process exits with status 1 without printing PASS.
C13_LoadErrorAborts ==
  loadFault # "none" =>
    /\ \A w \in Workers : wpc[w] = "unstarted"
    /\ cpc = "unstarted"
    /\ wg = 0
    /\ expects = <<>>
    /\ enqueued = <<>> /\ work = <<>>
    /\ failures = <<>> /\ printed = {} /\ num = 0
    /\ ~workClosed /\ ~failuresClosed
    /\ \A t \in Trials : deqCount[t] = 0 /\ sentCount[t] = 0 /\ recvCount[t] = 0
    /\ pc \in {"loadRoot", "loadConfig", "loadExpectations", "return", "exited"}
    /\ pc \in {"return", "exited"} => retErr = LoadErr(loadFault)
    /\ pc = "exited" =>
         /\ exitStatus = 1
         /\ stderr = LoadErr(loadFault)
         /\ passPrinted = 0

\* C13 witness: the process has exited with status 1 on an unreadable
\* config.json while a corpus of two expectations was waiting.
C13_Witness ==
  /\ loadFault = "config"
  /\ Len(corpus) = 2
  /\ pc = "exited"
  /\ exitStatus = 1

\* Every goroutine has returned and both channels are drained.
AllReturned ==
  /\ \A w \in Workers : wpc[w] = "done"
  /\ cpc = "done"
  /\ wg = 0
  /\ work = <<>> /\ workClosed
  /\ failures = <<>> /\ failuresClosed
  /\ numFailures = num

\* C15: under fair scheduling every run ends, for every corpus length and
\* number of workers: the dispatcher and the workers get past the full
\* channels, every worker returns once work is closed and drained,
\* failureCounter returns once failures is closed and drained, and runTests
\* receives the count and returns.
C15_Terminates ==
  <>(pc = "exited" /\ (loadFault = "none" => AllReturned))

\* C15 witness: a worker waits to send on the full failures channel.
C15_Witness ==
  \E w \in Workers : wpc[w] = "send" /\ Len(failures) = numWorkers

RECURSIVE SumOver(_, _)
SumOver(f, S) ==
  IF S = {} THEN 0
  ELSE LET x == CHOOSE y \in S : TRUE IN f[x] + SumOver(f, S \ {x})

\* The number of sends to failures, and of receives from it, so far.
TotalSent == SumOver(sentCount, Trials)

TotalReceived == SumOver(recvCount, Trials)

\* num counts the failures received, every failure sent is counted or still
\* in the channel, failureCounter leaves its loop only when failures is
\* closed and drained and the workers have returned, and the count runTests
\* receives is the number of failures sent.
C16_State ==
  /\ num = TotalReceived
  /\ num + Len(failures) = TotalSent
  /\ cpc \in {"sendCount", "done"} =>
       /\ failuresClosed /\ failures = <<>>
       /\ \A w \in Workers : wpc[w] = "done"
       /\ num = TotalSent
  /\ (loadFault = "none" /\ pc \in {"return", "exited"}) =>
       /\ cpc = "done"
       /\ numFailures = TotalSent

\* A step that changes num is a step of failureCounter's loop taking one
\* failure from the channel: main and the workers do not move in it.
C16_Step ==
  num' # num =>
    /\ cpc = "range" /\ cpc' = "range"
    /\ failures # <<>>
    /\ failures' = Tail(failures)
    /\ num' = num + 1
    /\ UNCHANGED <<runVars, workerVars, sentCount>>

\* C16: the failure counter num is written by failureCounter alone, one
\* increment per failure received, and the count delivered to runTests is
\* the number of failures the workers sent: none is lost or counted twice,
\* and the count is delivered only after failures is closed and drained.
C16_SingleWriterCount == []C16_State /\ [][C16_Step]_vars

\* C16 witness: a finished run in which two failures were sent and the
\* count delivered is two.
C16_Witness ==
  /\ Finished
  /\ TotalSent = 2
  /\ numFailures = 2

Min(a, b) == IF a <= b THEN a ELSE b

\* Trial t with its combined list cut behind the first fatal tag.
UpToFirstFatal(t) ==
  [TrialOf(t) EXCEPT
     !.Descriptions = SubSeq(Combined(t), 1, FirstFatal(Combined(t))),
     !.DNS.Descriptions = <<>>]

\* C17: the WEAK-OK evaluation scans the case-level tags and then the
\* subject-type tags from left to right and stops at the first fatal tag:
\* the tags examined are those up to the first fatal or unrecognized tag,
\* the decision for a list with a fatal tag is the decision for its prefix
\* ending at the first fatal tag, and no tag behind it is examined or turns
\* the result back to mustSucceed = true.
C17_FatalAbsorbing ==
  \A t \in DNSTrials :
    (IsWeakOK(t) /\ Combined(t) # <<>>) =>
      /\ Combined(t) = corpus[t[1]].Descriptions \o corpus[t[1]].DNS.Descriptions
      /\ Evaluate(TrialOf(t)).scanned =
           Min(Len(Combined(t)),
               Min(FirstFatal(Combined(t)), FirstUnknown(Combined(t))))
      /\ HasFatal(Combined(t)) =>
           /\ Evaluate(TrialOf(t)) = Evaluate(UpToFirstFatal(t))
           /\ Evaluate(TrialOf(t)).scanned <= FirstFatal(Combined(t))
           /\ EvalErr(t) = NoErr => ~MustSucceed(t)
           /\ steps[t].evaluated =>
                /\ steps[t] =
                     RunTrial(UpToFirstFatal(t), certFiles[t[1]], verifyErr[t[1]])
                /\ EvalErr(t) = NoErr => steps[t].report = Accepts(t)

\* C17 witness: a finished run whose list has a non-fatal and an
\* unrecognized tag behind the fatal tag: Verify ran, and its acceptance
\* was reported as the failure.
C17_Witness ==
  /\ Finished
  /\ \E t \in DNSTrials :
       /\ IsWeakOK(t)
       /\ Combined(t) = <<cnWithSANs, ipViolation, "bogus">>
       /\ steps[t].verified
       /\ Accepts(t)
       /\ recvCount[t] = 1

\* failures is closed only with every worker returned, work only with the
\* last trial sent; no send waits on a closed channel and no close
\* statement is reached with its channel closed; both are closed at exit.
C18_State ==
  /\ failuresClosed =>
       /\ \A w \in Workers : wpc[w] = "done"
       /\ wg = 0
       /\ workClosed
  /\ workClosed =>
       /\ enqueued = DispatchOrder(Len(expects))
       /\ pc \notin {"sendIP", "sendDNS", "closeWork"}
  /\ \A w \in Workers : wpc[w] = "send" => ~failuresClosed
  /\ pc \in {"sendIP", "sendDNS"} => ~workClosed
  /\ pc = "closeWork" => ~workClosed
  /\ pc = "closeFailures" => ~failuresClosed
  /\ Finished => (workClosed /\ failuresClosed)

\* A closed channel stays closed, a channel is closed only by its close
\* statement, and a send is a send on an open channel.
C18_Step ==
  /\ workClosed => workClosed'
  /\ failuresClosed => failuresClosed'
  /\ workClosed' # workClosed => (pc = "closeWork" /\ pc' = "wait")
  /\ failuresClosed' # failuresClosed => (pc = "closeFailures" /\ pc' = "recvCount")
  /\ Len(work') > Len(work) => (~workClosed /\ ~workClosed')
  /\ Len(failures') > Len(failures) => (~failuresClosed /\ ~failuresClosed')

\* C18: failures is closed only after every worker has returned and work
\* only after the dispatcher has sent its last trial: no worker sends on a
\* closed failures channel, the dispatcher never sends on a closed work
\* channel, and each channel is closed exactly once.
C18_CloseOrder == []C18_State /\ [][C18_Step]_vars

\* C18 witness: failures has just been closed after two workers that sent
\* failures returned.
C18_Witness ==
  /\ pc = "recvCount"
  /\ failuresClosed
  /\ TotalSent = 2
  /\ \A w \in Workers : wpc[w] = "done"

\* C19: a trial is sent to failures at most once and an IP trial never, so
\* the count never exceeds the number K of expectations, and the message
\* "failed n of K tests" has 0 < n <= K with K the length of the corpus.
C19_CountAtMostK ==
  /\ \A t \in Trials : sentCount[t] <= 1
  /\ \A t \in IPTrials : sentCount[t] = 0
  /\ TotalSent <= Len(corpus)
  /\ num <= Len(corpus)
  /\ numFailures <= Len(corpus)
  /\ retErr.kind = "failed" =>
       /\ 0 < retErr.n
       /\ retErr.n <= retErr.of
       /\ retErr.of = Len(corpus)
       /\ retErr.n = num
  /\ stderr.kind = "failed" => stderr = retErr

\* C19 witness: main has written "failed 2 of 2 tests".
C19_Witness ==
  /\ pc = "exited"
  /\ stderr.kind = "failed"
  /\ stderr.n = 2
  /\ stderr.of = 2

StartedWorkers == {w \in Workers : wpc[w] # "unstarted"}

ReturnedWorkers == {w \in Workers : wpc[w] = "done"}

\* C20: a worker runs before wg.Add(1) is called for it, yet no worker
\* calls Done before all the Adds: a worker returns only after work is
\* closed, which follows the last Add.  The counter is the number of Adds
\* less the number of Dones and is never negative, and wg.Wait returns only
\* when all workers have returned.
C20_WaitGroup ==
  /\ wg >= 0
  /\ wg = i - Cardinality(ReturnedWorkers)
  /\ Cardinality(StartedWorkers) = i + Bit(pc = "add")
  /\ \A w \in ReturnedWorkers : i = numWorkers /\ workClosed
  /\ (loadFault = "none"
      /\ pc \in {"closeFailures", "recvCount", "return", "exited"}) =>
       /\ ReturnedWorkers = Workers
       /\ numWorkers = Cardinality(Workers)
       /\ wg = 0

\* C20 witness: the fourth worker is running and waits on work while
\* wg.Add(1) has been called three times only.
C20_Witness ==
  /\ pc = "add"
  /\ Cardinality(Workers) = 4
  /\ StartedWorkers = Workers
  /\ \A w \in Workers : wpc[w] = "recv"
  /\ wg = 3

====
